---- MODULE Spec2Model ----
(***************************************************************************)
(* Reversible linear congruential generator (rrng.py).                     *)
(*                                                                         *)
(* One generator object is modelled: its fields (_x, _m, _a, _c, _d,       *)
(* _a_inverse, forward), the module-level cache a_inverse_stored, and one  *)
(* action per public call (the two constructors, next, prev, __next__,     *)
(* reverse, random).  Python integers are unbounded, so the arithmetic is  *)
(* exact integer arithmetic; the bitwise operators are modelled on         *)
(* two's-complement integers of unbounded width, as Python defines them.   *)
(*                                                                         *)
(* The model checker's integers are 32 bits wide, so the default           *)
(* parameters of the source (m = 2^63, a, c of 63 bits, d = 32) are        *)
(* replaced by small ones of the same shape: see DefaultM .. DefaultD.     *)
(***************************************************************************)
EXTENDS Integers, Sequences, FiniteSets, TLC

VARIABLES
    cls,              \* class of the live object: "none" before construction
    _x,               \* self._x
    _m,               \* self._m
    _a,               \* self._a
    _c,               \* self._c
    _d,               \* self._d
    _a_inverse,       \* self._a_inverse
    forward,          \* self.forward
    a_inverse_stored, \* the module-level cache, a function on pairs <<a, b>>
    last,             \* history: the most recent call, its arguments and result
    hist,             \* history: the calls since construction (when tracing)
    tracing,          \* whether hist is recorded (fixed by the initial state)
    wide,             \* a generator with the parameters of the source, in limbs
    other             \* a second generator object the caller holds, or none

vars == <<cls, _x, _m, _a, _c, _d, _a_inverse, forward, a_inverse_stored,
          last, hist, tracing, wide, other>>

fields == <<cls, _x, _m, _a, _c, _d, _a_inverse, forward>>

----------------------------------------------------------------------------
(* Bounds of the model.                                                    *)

MaxBits == 2     \* moduli tried by the constructor: 0 .. 2^MaxBits
MaxA    == 3     \* multipliers tried: 1 .. MaxA
MaxC    == 1     \* increments tried: 0 .. MaxC
MaxD    == 1     \* discarded bits tried: -1 .. MaxD
MaxSeed == 4     \* seeds tried: -1 .. MaxSeed
MaxSize == 2     \* bulk sizes tried: 0 .. MaxSize
MaxHist == 5     \* calls recorded in hist when tracing
MaxXgcdA == 46   \* first arguments of xgcd_x tried alone: 0 .. MaxXgcdA
MaxXgcdB == 240  \* second arguments of xgcd_x tried alone: 1 .. MaxXgcdB
MaxPow  == 257   \* arguments of is_power_of_two tried: -MaxPow .. MaxPow
MaxCacheA == 2   \* first arguments of get_a_inverse_value: -1 .. MaxCacheA
MaxCacheB == 1   \* second arguments of get_a_inverse_value: -1 .. MaxCacheB
MaxCache == 2    \* entries of a_inverse_stored followed
MaxPairSeed == 1 \* seeds of the generators built side by side: 0 .. MaxPairSeed
MaxPairOps == 2  \* calls recorded on two generators together
MaxWideSeed == 63  \* seeds of the generator in limbs: 0 .. MaxWideSeed
MaxWideSteps == 5  \* calls of next() on the generator in limbs
MaxX    == 8     \* steps to a state outside [0, m) end beyond -MaxX .. MaxX
DefaultBits == 3 \* width of the default modulus (63 in the source)

(* The default parameters of ReversibleLCG.__init__, scaled from 63 bits   *)
(* to DefaultBits: the modulus 1 << DefaultBits, a multiplier congruent to *)
(* 5 modulo 8 and an increment congruent to 7 modulo 8 as in the source,   *)
(* and a shift of half the width.  The inverse of DefaultA modulo DefaultM *)
(* that xgcd_x returns is negative, as in the source.                      *)
DefaultM == 2 ^ DefaultBits
DefaultA == 5
DefaultC == 7
DefaultD == DefaultBits \div 2

(* The number of values of numpy's uint64, scaled like DefaultM (one bit   *)
(* more than the modulus).                                                 *)
UInt64Range == 2 * DefaultM

----------------------------------------------------------------------------
(* Python's integer operators.                                             *)

(* a // b, floor division. *)
PyFloorDiv(p, q) == IF q > 0 THEN p \div q ELSE (-p) \div (-q)

(* a % b, the remainder with the sign of b. *)
PyMod(p, q) == p - q * PyFloorDiv(p, q)

(* p & q on two's-complement integers of unbounded width. *)
RECURSIVE BitAnd(_, _)
BitAnd(p, q) ==
    IF p = 0 \/ q = 0 THEN 0
    ELSE IF p = -1 THEN q
    ELSE IF q = -1 THEN p
    ELSE (p % 2) * (q % 2) + 2 * BitAnd(p \div 2, q \div 2)

(* p >> n for n >= 0; Python raises ValueError for a negative n. *)
ShiftOk(n) == n >= 0
Shr(p, n) == p \div (2 ^ n)

----------------------------------------------------------------------------
(* Module-level functions.                                                 *)

(* The test with zero excluded. *)
is_power_of_two_positive(p) == p > 0 /\ BitAnd(p, p - 1) = 0

is_power_of_two(p) == BitAnd(p, p - 1) = 0

(* The loop returning x, the coefficient of the last step, for x_prev. *)
RECURSIVE xgcd_loop_returns_x(_, _, _, _)
xgcd_loop_returns_x(a, b, x_prev, x) ==
    IF b = 0 THEN x
    ELSE xgcd_loop_returns_x(b, PyMod(a, b), x, x_prev - PyFloorDiv(a, b) * x)

RECURSIVE xgcd_loop(_, _, _, _)
xgcd_loop(a, b, x_prev, x) ==
    IF b = 0 THEN x_prev
    ELSE xgcd_loop(b, PyMod(a, b), x, x_prev - PyFloorDiv(a, b) * x)

xgcd_x(a, b) == xgcd_loop(a, b, 1, 0)

(* The cache storing under the key with a and b exchanged. *)
a_inverse_stored_after_swapped(a, b) ==
    IF <<a, b>> \in DOMAIN a_inverse_stored
    THEN a_inverse_stored
    ELSE [k \in DOMAIN a_inverse_stored \cup {<<b, a>>} |->
            IF k = <<b, a>> THEN xgcd_x(a, b) ELSE a_inverse_stored[k]]

(* get_a_inverse_value looking the value up by a alone. *)
get_a_inverse_value_by_a(a, b) ==
    IF \E k \in DOMAIN a_inverse_stored : k[1] = a
    THEN a_inverse_stored[CHOOSE k \in DOMAIN a_inverse_stored : k[1] = a]
    ELSE xgcd_x(a, b)

(* get_a_inverse_value: the value returned, and the cache afterwards. *)
get_a_inverse_value(a, b) ==
    IF <<a, b>> \in DOMAIN a_inverse_stored
    THEN a_inverse_stored[<<a, b>>]
    ELSE xgcd_x(a, b)

a_inverse_stored_after(a, b) ==
    IF <<a, b>> \in DOMAIN a_inverse_stored
    THEN a_inverse_stored
    ELSE [k \in DOMAIN a_inverse_stored \cup {<<a, b>>} |->
            IF k = <<a, b>> THEN xgcd_x(a, b) ELSE a_inverse_stored[k]]

----------------------------------------------------------------------------
(* Arguments and the record of a call.                                     *)

NoneArg == [kind |-> "None", val |-> 0]
IntArg(n) == [kind |-> "int", val |-> n]
TupleArg(n) == [kind |-> "tuple", val |-> n]

NoCall == [op |-> "none", size |-> NoneArg, update |-> TRUE,
           increment |-> NoneArg,
           err |-> FALSE, retkind |-> "none", ret |-> <<>>,
           x_before |-> 0, forward_before |-> TRUE,
           fresh |-> FALSE, prevop |-> "none", x_before2 |-> 0,
           prevfresh |-> FALSE, forward_before2 |-> TRUE,
           m_arg |-> 0, a_arg |-> 0, hit |-> FALSE,
           after_peek |-> FALSE, peek_ret |-> <<>>]

(* Whether the call before random(size, update, increment) was a call of   *)
(* random that returned, with update=False and the same size and           *)
(* increment.                                                              *)
AfterPeek(op, size, increment) ==
    /\ op = "random" /\ last.op = "random"
    /\ ~last.update /\ ~last.err
    /\ last.size = size /\ last.increment = increment

(* The record of a call of op on the live object, with the state the call  *)
(* started from; a call of random right after a peek with its arguments    *)
(* keeps what the peek returned (peek_ret).                                *)
Call(op, size, update, increment, err, retkind, ret) ==
    [NoCall EXCEPT !.op = op, !.size = size, !.update = update,
                   !.increment = increment, !.err = err,
                   !.retkind = retkind, !.ret = ret,
                   !.x_before = _x, !.forward_before = forward,
                   !.fresh = (last.op = "__init__" /\ ~last.err),
                   !.after_peek = AfterPeek(op, size, increment),
                   !.peek_ret = IF AfterPeek(op, size, increment)
                                THEN last.ret ELSE <<>>]

(* The record of a call without arguments; it also keeps the call before   *)
(* it (prevop), the state that one started from (x_before2,                *)
(* forward_before2) and whether that one was the first call on the object  *)
(* (prevfresh).                                                            *)
Plain(op, err, retkind, ret) ==
    [Call(op, NoneArg, TRUE, NoneArg, err, retkind, ret)
        EXCEPT !.prevop = last.op, !.x_before2 = last.x_before,
               !.prevfresh = last.fresh,
               !.forward_before2 = last.forward_before]

Record(e) == hist' = IF tracing THEN Append(hist, e) ELSE hist

CanCall == cls # "none" /\ (tracing => Len(hist) < MaxHist)

----------------------------------------------------------------------------
(* Construction.                                                           *)

(* No second object: the fields as InitCommon sets them. *)
NoObj == [cls |-> "none", x |-> 0, m |-> 1, a |-> 1, c |-> 0, d |-> 0,
          a_inverse |-> 0, forward |-> TRUE, hist |-> <<>>]

(* No generator in limbs. *)
NoWide == [seed |-> 0, x |-> <<>>, outs |-> <<>>]

InitCommon ==
    /\ cls = "none"
    /\ _x = 0 /\ _m = 1 /\ _a = 1 /\ _c = 0 /\ _d = 0 /\ _a_inverse = 0
    /\ forward = TRUE
    /\ a_inverse_stored = [k \in {} |-> 0]
    /\ last = NoCall
    /\ hist = <<>>
    /\ other = NoObj

Init == InitCommon /\ tracing = FALSE /\ wide = NoWide

(* ReversibleLCG.__init__(seed, m, a, c, d) on a new object.  A failed     *)
(* assertion leaves no object behind.                                      *)
ReversibleLCG_init(cl, s, m, a, c, d) ==
    /\ cls = "none"
    /\ IF is_power_of_two(m)
       THEN /\ cls' = cl
            /\ _x' = s /\ _m' = m /\ _a' = a /\ _c' = c /\ _d' = d
            /\ _a_inverse' = get_a_inverse_value(a, m)
            /\ a_inverse_stored' = a_inverse_stored_after(a, m)
            /\ forward' = TRUE
            /\ last' = [NoCall EXCEPT !.op = "__init__", !.x_before = s,
                                      !.m_arg = m]
       ELSE /\ last' = [NoCall EXCEPT !.op = "__init__", !.err = TRUE,
                                      !.x_before = s, !.m_arg = m]
            /\ UNCHANGED <<fields, a_inverse_stored>>
    /\ UNCHANGED <<hist, tracing, wide, other>>

NewReversibleLCG ==
    \E s \in -1 .. MaxSeed, m \in 0 .. 2 ^ MaxBits, a \in 1 .. MaxA,
       c \in 0 .. MaxC, d \in -1 .. MaxD :
        ReversibleLCG_init("ReversibleLCG", s, m, a, c, d)

(* GeneratorLCGReversible.__init__(seed): the defaults of the base class. *)
NewGeneratorLCGReversible ==
    \E s \in -1 .. DefaultM + 1 :
        ReversibleLCG_init("GeneratorLCGReversible", s,
                           DefaultM, DefaultA, DefaultC, DefaultD)

----------------------------------------------------------------------------
(* Stepping.                                                               *)

(* nextx = (a * x + c) % m, by masking; xv is self._x. *)
_next_state(xv) == BitAnd(_a * xv + _c, _m - 1)

(* _prev_state without the parentheses around x - c. *)
_prev_state_unparenthesised(xv) == BitAnd(_a_inverse * xv - _c, _m - 1)

(* prevx = (a_inverse * (x - c)) % m, by masking; xv is self._x. *)
_prev_state(xv) == BitAnd(_a_inverse * (xv - _c), _m - 1)

(* self.max *)
max == Shr(_m - 1, _d)

(* The body shared by next() and prev(): store the new state, then return  *)
(* it shifted.  A negative _d makes the shift raise after the store.  With *)
(* the modulus 0, which the constructor accepts, the mask is -1 and the    *)
(* states are unbounded: the model follows them up to MaxX.                *)
StepTo(op, nx) ==
    /\ nx \in 0 .. _m - 1 \/ nx \in -MaxX .. MaxX
    /\ _x' = nx
    /\ last' = IF ShiftOk(_d)
               THEN Plain(op, FALSE, "scalar", <<Shr(nx, _d)>>)
               ELSE Plain(op, TRUE, "none", <<>>)
    /\ Record(last')
    /\ UNCHANGED <<cls, _m, _a, _c, _d, _a_inverse, forward,
                   a_inverse_stored, tracing, wide, other>>

next == CanCall /\ StepTo("next", _next_state(_x))

prev == CanCall /\ StepTo("prev", _prev_state(_x))

__next__ ==
    /\ CanCall
    /\ IF forward
       THEN StepTo("__next__", _next_state(_x))
       ELSE StepTo("__next__", _prev_state(_x))

(* reverse() setting the backward mode. *)
reverse_backward ==
    /\ CanCall
    /\ forward' = FALSE
    /\ last' = Plain("reverse", FALSE, "none", <<>>)
    /\ Record(last')
    /\ UNCHANGED <<cls, _x, _m, _a, _c, _d, _a_inverse,
                   a_inverse_stored, tracing, wide, other>>

reverse ==
    /\ CanCall
    /\ forward' = ~forward
    /\ last' = Plain("reverse", FALSE, "none", <<>>)
    /\ Record(last')
    /\ UNCHANGED <<cls, _x, _m, _a, _c, _d, _a_inverse,
                   a_inverse_stored, tracing, wide, other>>

----------------------------------------------------------------------------
(* Bulk generation.                                                        *)

(* _next_state_generator yielding before it steps. *)
RECURSIVE _next_state_generator_stale(_, _, _, _, _)
_next_state_generator_stale(x, m, a, c, n) ==
    IF n = 0 THEN <<>>
    ELSE <<x>> \o _next_state_generator_stale(BitAnd(a * x + c, m - 1),
                                              m, a, c, n - 1)

(* The first n values yielded by _next_state_generator(x, m, a, c). *)
RECURSIVE _next_state_generator(_, _, _, _, _)
_next_state_generator(x, m, a, c, n) ==
    IF n = 0 THEN <<>>
    ELSE LET y == BitAnd(a * x + c, m - 1)
         IN  <<y>> \o _next_state_generator(y, m, a, c, n - 1)

(* The first n values yielded by _prev_state_generator(x, m, a_inverse, c). *)
RECURSIVE _prev_state_generator(_, _, _, _, _)
_prev_state_generator(x, m, a_inverse, c, n) ==
    IF n = 0 THEN <<>>
    ELSE LET y == BitAnd(a_inverse * (x - c), m - 1)
         IN  <<y>> \o _prev_state_generator(y, m, a_inverse, c, n - 1)

(* np.fromiter(gen, dtype='uint64', count=n): every value must be one of   *)
(* uint64, or the conversion raises OverflowError.                         *)
fromiter_ok(s) == \A i \in 1 .. Len(s) : s[i] >= 0 /\ s[i] < UInt64Range

(* x >> self._d on an array. *)
ShrAll(s, n) == [i \in 1 .. Len(s) |-> Shr(s[i], n)]

(* The assertion testing the increment for truth only. *)
increment_ok_truthy(inc) == inc.val # 0

(* assert increment in (-1, 1) *)
increment_ok(inc) == inc.val \in {-1, 1}

(* The direction of the steps taken from the mode alone. *)
increment_used_mode(inc) == IF forward THEN 1 ELSE -1

(* The direction of the steps: the argument, or the mode when it is None. *)
increment_used(inc) ==
    IF inc.kind = "None" THEN (IF forward THEN 1 ELSE -1) ELSE inc.val

(* The assignment of self.forward without the test of update. *)
forward_set_always(update, inc) ==
    IF inc.kind # "None" THEN inc.val = 1 ELSE forward

(* The assignment of self.forward left out. *)
forward_set_never(update, inc) == forward

(* self.forward after "if update: self.forward = True if increment == 1   *)
(* else False", which runs only for an increment that is not None.         *)
forward_set(update, inc) ==
    IF inc.kind # "None" /\ update THEN inc.val = 1 ELSE forward

(* The store of x[-1] without the test of update. *)
x_commit_always(update, arr) ==
    IF Len(arr) = 0 THEN _x ELSE arr[Len(arr)]

(* self._x after "if update: self._x = int(x[-1])". *)
x_commit(update, arr) == IF update THEN arr[Len(arr)] ELSE _x

(* A call of random that raises after self.forward was (perhaps) set. *)
RandomRaises(size, update, inc, f) ==
    /\ forward' = f
    /\ _x' = _x
    /\ last' = Call("random", size, update, inc, TRUE, "none", <<>>)

(* A call of random that returns. *)
RandomReturns(size, update, inc, f, nx, retkind, ret) ==
    /\ forward' = f
    /\ _x' = nx
    /\ last' = Call("random", size, update, inc, FALSE, retkind, ret)

random(size, update, inc) ==
    /\ CanCall
    /\ cls = "GeneratorLCGReversible"
    /\ IF inc.kind # "None" /\ ~increment_ok(inc)
       THEN RandomRaises(size, update, inc, forward)
       ELSE LET i == increment_used(inc)
                f == forward_set(update, inc)
            IN  IF size.kind = "None"
                THEN IF update
                     THEN LET nx == IF f THEN _next_state(_x)
                                         ELSE _prev_state(_x)
                          IN  RandomReturns(size, update, inc, f, nx,
                                            "scalar", <<Shr(nx, _d)>>)
                     ELSE LET nx == IF i = 1 THEN _next_state(_x)
                                             ELSE _prev_state(_x)
                          IN  RandomReturns(size, update, inc, f, _x,
                                            "scalar", <<Shr(nx, _d)>>)
                ELSE IF size.kind # "int"
                     THEN RandomRaises(size, update, inc, f)
                     ELSE LET arr ==
                                IF i = 1
                                THEN _next_state_generator(_x, _m, _a, _c,
                                                           size.val)
                                ELSE _prev_state_generator(_x, _m, _a_inverse,
                                                           _c, size.val)
                          IN  IF ~fromiter_ok(arr) \/ (update /\ Len(arr) = 0)
                              THEN RandomRaises(size, update, inc, f)
                              ELSE RandomReturns(size, update, inc, f,
                                                 x_commit(update, arr),
                                                 "array", ShrAll(arr, _d))
    /\ Record(last')
    /\ UNCHANGED <<cls, _m, _a, _c, _d, _a_inverse,
                   a_inverse_stored, tracing, wide, other>>

(* The arguments tried: size None, 0 .. MaxSize or a tuple; increment      *)
(* None or -1 .. 2.  A negative size makes np.fromiter read the endless    *)
(* generator to its end, so the call never returns: it is no step.         *)
SizeArgs == {NoneArg, TupleArg(1)} \cup {IntArg(n) : n \in 0 .. MaxSize}
IncrementArgs == {NoneArg} \cup {IntArg(n) : n \in -1 .. 2}

RandomCall ==
    \E size \in SizeArgs, update \in BOOLEAN, inc \in IncrementArgs :
        random(size, update, inc)

----------------------------------------------------------------------------
(* Specifications.                                                         *)

Next ==
    \/ NewReversibleLCG
    \/ NewGeneratorLCGReversible
    \/ next
    \/ prev
    \/ __next__
    \/ reverse
    \/ RandomCall

Spec == Init /\ [][Next]_vars

(* The iterator protocol alone, with the calls since construction          *)
(* recorded in hist.                                                       *)
InitSym == InitCommon /\ tracing = TRUE /\ wide = NoWide

NextSym ==
    \/ NewReversibleLCG
    \/ NewGeneratorLCGReversible
    \/ __next__
    \/ reverse

SpecSym == InitSym /\ [][NextSym]_vars

----------------------------------------------------------------------------
(* Two generator objects alive at once.  The instance attributes of the    *)
(* one the caller is not calling are kept in other; a_inverse_stored is    *)
(* the module-level dictionary both constructors go through.               *)

CurObj == [cls |-> cls, x |-> _x, m |-> _m, a |-> _a, c |-> _c, d |-> _d,
           a_inverse |-> _a_inverse, forward |-> forward, hist |-> hist]

(* The most recent call on an object, as last holds it. *)
LastOf(o) ==
    IF Len(o.hist) > 0 THEN o.hist[Len(o.hist)]
    ELSE IF o.cls = "none" THEN NoCall
    ELSE [NoCall EXCEPT !.op = "__init__", !.x_before = o.x, !.m_arg = o.m]

(* The caller's name moves to the object o. *)
SetCur(o) ==
    /\ cls' = o.cls
    /\ _x' = o.x /\ _m' = o.m /\ _a' = o.a /\ _c' = o.c /\ _d' = o.d
    /\ _a_inverse' = o.a_inverse
    /\ forward' = o.forward
    /\ hist' = o.hist
    /\ last' = LastOf(o)

(* g1 = ReversibleLCG(...) is kept while the next one is constructed. *)
hold ==
    /\ cls # "none" /\ other.cls = "none"
    /\ other' = CurObj
    /\ SetCur(NoObj)
    /\ UNCHANGED <<a_inverse_stored, tracing, wide>>

(* The next call goes to the other object. *)
switch ==
    /\ cls # "none" /\ other.cls # "none"
    /\ other' = CurObj
    /\ SetCur(other)
    /\ UNCHANGED <<a_inverse_stored, tracing, wide>>

(* The object called last is dropped; its cache entry stays. *)
discard ==
    /\ cls # "none"
    /\ SetCur(NoObj)
    /\ UNCHANGED <<a_inverse_stored, tracing, wide, other>>

NewPairGenerator ==
    \E s \in 0 .. MaxPairSeed :
        ReversibleLCG_init("GeneratorLCGReversible", s,
                           DefaultM, DefaultA, DefaultC, DefaultD)

NewPairLCG ==
    \E s \in 0 .. MaxPairSeed :
        ReversibleLCG_init("ReversibleLCG", s,
                           DefaultM \div 2, DefaultA, DefaultC, DefaultD)

PairCanCall == Len(hist) + Len(other.hist) < MaxPairOps

PairRandomCall ==
    \E size \in {NoneArg, IntArg(MaxSize)}, update \in BOOLEAN :
        random(size, update, NoneArg)

NextPair ==
    \/ NewPairGenerator
    \/ NewPairLCG
    \/ hold
    \/ switch
    \/ discard
    \/ PairCanCall /\ next
    \/ PairCanCall /\ prev
    \/ PairCanCall /\ __next__
    \/ PairCanCall /\ reverse
    \/ PairCanCall /\ PairRandomCall

SpecPair == InitSym /\ [][NextPair]_vars

----------------------------------------------------------------------------
(* The module-level functions called on their own, once each.              *)

call_xgcd_x ==
    /\ last.op = "none"
    /\ \E a \in 0 .. MaxXgcdA, b \in 1 .. MaxXgcdB :
        last' = [NoCall EXCEPT !.op = "xgcd_x", !.a_arg = a, !.m_arg = b,
                               !.retkind = "scalar",
                               !.ret = <<xgcd_x(a, b)>>]
    /\ UNCHANGED <<fields, a_inverse_stored, hist, tracing, wide, other>>

call_is_power_of_two ==
    /\ last.op = "none"
    /\ \E p \in -MaxPow .. MaxPow :
        last' = [NoCall EXCEPT !.op = "is_power_of_two", !.a_arg = p,
                               !.retkind = "bool",
                               !.ret = <<is_power_of_two(p)>>]
    /\ UNCHANGED <<fields, a_inverse_stored, hist, tracing, wide, other>>

NextFn == call_xgcd_x \/ call_is_power_of_two

SpecFn == Init /\ [][NextFn]_vars

(* get_a_inverse_value(a, b) called on its own, any number of times, while *)
(* the cache holds or gets at most MaxCache entries.                       *)
call_get_a_inverse_value ==
    /\ \E a \in -1 .. MaxCacheA, b \in -1 .. MaxCacheB :
        /\ \/ <<a, b>> \in DOMAIN a_inverse_stored
           \/ Cardinality(DOMAIN a_inverse_stored) < MaxCache
        /\ last' = [NoCall EXCEPT
                        !.op = "get_a_inverse_value",
                        !.a_arg = a, !.m_arg = b,
                        !.hit = (<<a, b>> \in DOMAIN a_inverse_stored),
                        !.retkind = "scalar",
                        !.ret = <<get_a_inverse_value(a, b)>>]
        /\ a_inverse_stored' = a_inverse_stored_after(a, b)
    /\ UNCHANGED <<fields, hist, tracing, wide, other>>

SpecCache == Init /\ [][call_get_a_inverse_value]_vars

----------------------------------------------------------------------------
(* The generator with the default parameters of the source.  Its numbers   *)
(* exceed the integers of the model checker, so they are held as limbs of  *)
(* LimbBits bits, least significant first, and the arithmetic of           *)
(* _next_state is done on limbs: exactly, as Python's integers do it.      *)

LimbBits == 12
Limb == 2 ^ LimbBits
NumLimbs == 6

(* A number 0 <= n < 2^31 in NumLimbs limbs. *)
ToLimbs(n) ==
    [i \in 1 .. NumLimbs |->
        IF i = 1 THEN n % Limb
        ELSE IF i = 2 THEN (n \div Limb) % Limb
        ELSE IF i = 3 THEN n \div (Limb * Limb)
        ELSE 0]

(* a = 6364136223846793005, c = 1442695040888963407, m - 1 = 2^63 - 1. *)
WideA == <<3885, 2391, 3404, 3906, 2129, 5>>
WideC == <<335, 1656, 3831, 1975, 1029, 1>>
WideMask == <<4095, 4095, 4095, 4095, 4095, 7>>

(* d = 32 *)
WideD == 32

LimbAt(X, i) == IF i \in DOMAIN X THEN X[i] ELSE 0

(* The limbs of the number whose k-th limb position holds the (possibly    *)
(* too large) column cols[k]: the carries are propagated upwards.          *)
RECURSIVE Carry(_, _, _)
Carry(cols, k, carry) ==
    IF k > Len(cols) THEN <<>>
    ELSE <<(cols[k] + carry) % Limb>>
         \o Carry(cols, k + 1, (cols[k] + carry) \div Limb)

RECURSIVE ColumnSum(_, _, _, _)
ColumnSum(X, Y, k, i) ==
    IF i > k THEN 0
    ELSE LimbAt(X, i) * LimbAt(Y, k + 1 - i) + ColumnSum(X, Y, k, i + 1)

(* X * Y, all 2 * NumLimbs limbs of it. *)
WideMul(X, Y) ==
    Carry([k \in 1 .. 2 * NumLimbs |-> ColumnSum(X, Y, k, 1)], 1, 0)

(* X + Y for X of 2 * NumLimbs limbs. *)
WideAdd(X, Y) ==
    Carry([k \in 1 .. 2 * NumLimbs + 1 |-> LimbAt(X, k) + LimbAt(Y, k)], 1, 0)

(* X & M for a mask M of NumLimbs limbs. *)
WideAnd(X, M) == [k \in 1 .. NumLimbs |-> BitAnd(LimbAt(X, k), M[k])]

(* X >> n for X < 2^63 and n >= 32, as one integer: the limbs from bit n   *)
(* on.                                                                     *)
RECURSIVE WideShr(_, _)
WideShr(X, n) ==
    IF Len(X) = 0 THEN 0
    ELSE IF n >= LimbBits THEN WideShr(Tail(X), n - LimbBits)
    ELSE (Head(X) \div 2 ^ n)
         + 2 ^ (LimbBits - n) * WideShr(Tail(X), 0)

(* _next_state without the increment. *)
wide_next_state_no_increment(X) == WideAnd(WideMul(WideA, X), WideMask)

(* (self._a * self._x + self._c) & (self._m - 1) *)
wide_next_state(X) == WideAnd(WideAdd(WideMul(WideA, X), WideC), WideMask)

(* ReversibleLCG(seed), already constructed. *)
InitWide ==
    /\ InitCommon /\ tracing = FALSE
    /\ \E s \in 0 .. MaxWideSeed :
        wide = [seed |-> s, x |-> ToLimbs(s), outs |-> <<>>]

(* next() *)
wide_next ==
    /\ Len(wide.outs) < MaxWideSteps
    /\ LET nx == wide_next_state(wide.x)
       IN  wide' = [wide EXCEPT !.x = nx,
                                !.outs = Append(@, WideShr(nx, WideD))]
    /\ UNCHANGED <<fields, a_inverse_stored, last, hist, tracing, other>>

SpecWide == InitWide /\ [][wide_next]_vars

----------------------------------------------------------------------------
(* Vocabulary of the properties.                                           *)

(* n = 2^k for some k >= 0, by arithmetic (not by the bit trick). *)
IsPow2(n) == n >= 1 /\ \E k \in 0 .. 30 : n = 2 ^ k

(* A live object whose parameters meet the documented preconditions: a    *)
(* power-of-two modulus and a multiplier coprime to it.                    *)
ValidParams == cls # "none" /\ IsPow2(_m) /\ _a % 2 = 1

InRange(xv) == xv >= 0 /\ xv < _m

(* The states after 1 .. n successive calls of next() (or prev()) from xv. *)
RECURSIVE ScalarStates(_, _, _)
ScalarStates(op, xv, n) ==
    IF n = 0 THEN <<>>
    ELSE LET y == IF op = "next" THEN _next_state(xv) ELSE _prev_state(xv)
         IN  <<y>> \o ScalarStates(op, y, n - 1)

Reverse(s) == [i \in 1 .. Len(s) |-> s[Len(s) + 1 - i]]

----------------------------------------------------------------------------
(* C1: with a power-of-two modulus and an odd multiplier, from a state x   *)
(* in [0, m), next() then prev() leaves x as it was before the two calls,  *)
(* and so does prev() then next().                                         *)
C1_RoundTrip ==
    (/\ ValidParams
     /\ last.op \in {"next", "prev"}
     /\ last.prevop \in {"next", "prev"}
     /\ last.prevop # last.op
     /\ InRange(last.x_before2))
    => _x = last.x_before2

(* next() then prev() has run with a negative inverse, back to a state     *)
(* other than the one in between.                                          *)
C1_Witness ==
    /\ ValidParams
    /\ last.op = "prev" /\ last.prevop = "next"
    /\ InRange(last.x_before2)
    /\ _a_inverse < 0 /\ _c > 0
    /\ last.x_before # _x
    /\ _x = last.x_before2

(* C2: in forward mode, after N calls of __next__() from x0 that return    *)
(* o_1 .. o_N and a reverse(), the next N calls of __next__() return       *)
(* o_(N-1), .., o_1, x0 >> d, and leave x = x0.  Stated for objects with   *)
(* valid parameters, over the calls since construction (x0 is the seed).   *)
C2_Symmetry ==
    \A N \in 1 .. MaxHist :
        (/\ ValidParams
         /\ Len(hist) = 2 * N + 1
         /\ \A i \in 1 .. N : hist[i].op = "__next__" /\ ~hist[i].err
         /\ hist[1].forward_before
         /\ hist[N + 1].op = "reverse"
         /\ \A i \in N + 2 .. 2 * N + 1 :
                hist[i].op = "__next__" /\ ~hist[i].err)
        => /\ \A j \in 1 .. N - 1 : hist[N + 1 + j].ret = hist[N - j].ret
           /\ hist[2 * N + 1].ret = <<Shr(hist[1].x_before, _d)>>
           /\ _x = hist[1].x_before

(* C3: random(size=N, increment=1) returns the outputs of N successive     *)
(* calls of next() from the same state and, with update=True, leaves the   *)
(* state they leave; random(size=N, increment=-1) likewise for prev().     *)
C3_BulkEqualsScalar ==
    (/\ last.op = "random" /\ ~last.err
     /\ last.size.kind = "int" /\ last.size.val >= 1
     /\ last.increment.kind = "int")
    => LET op == IF last.increment.val = 1 THEN "next" ELSE "prev"
           ss == ScalarStates(op, last.x_before, last.size.val)
       IN  /\ last.retkind = "array"
           /\ last.ret = [i \in 1 .. Len(ss) |-> Shr(ss[i], _d)]
           /\ last.update => _x = ss[Len(ss)]

(* A committed bulk call backwards of two values has returned. *)
C3_Witness ==
    /\ last.op = "random" /\ ~last.err
    /\ last.size = IntArg(2) /\ last.increment = IntArg(-1) /\ last.update
    /\ Len(last.ret) = 2 /\ last.ret[1] # last.ret[2]
    /\ _x # last.x_before

(* C4: random(update=False), for size None or N >= 1 and increment None,   *)
(* 1 or -1, leaves x and forward unchanged, and two consecutive such calls *)
(* with the same arguments return the same values.                         *)
PeekArgs(e) ==
    /\ e.op = "random" /\ ~e.update
    /\ e.size.kind = "None" \/ (e.size.kind = "int" /\ e.size.val >= 1)
    /\ e.increment.kind = "None" \/ e.increment.val \in {-1, 1}

C4_PeekKeepsState ==
    /\ [](PeekArgs(last) =>
            /\ ~last.err
            /\ _x = last.x_before
            /\ forward = last.forward_before)
    /\ [][(/\ PeekArgs(last) /\ PeekArgs(last')
           /\ last'.size = last.size
           /\ last'.increment = last.increment)
          => (last'.ret = last.ret /\ last'.retkind = last.retkind)]_vars

(* A bulk peek against the mode has returned two values. *)
C4_Witness ==
    /\ PeekArgs(last) /\ ~last.err
    /\ last.size = IntArg(2) /\ last.increment = IntArg(-1)
    /\ forward
    /\ Len(last.ret) = 2

(* C5: in every state of a constructed generator, 0 <= x < m.  Stated for  *)
(* a power-of-two modulus.                                                 *)
C5_StateInRange == (cls # "none" /\ IsPow2(_m)) => InRange(_x)

(* C6: every value returned by next(), prev(), __next__() or random()      *)
(* lies in [0, max], max = (m - 1) >> d.                                   *)
C6_OutputInRange ==
    last.retkind # "none" =>
        \A i \in 1 .. Len(last.ret) : last.ret[i] >= 0 /\ last.ret[i] <= max

(* C7: construction fails for every m that is not a power of two and       *)
(* succeeds for every m that is; the m of a constructed generator is a     *)
(* power of two.                                                           *)
C7_PowerOfTwoModulus ==
    /\ last.op = "__init__" => (last.err <=> ~IsPow2(last.m_arg))
    /\ cls # "none" => IsPow2(_m)

(* C8: random(increment=v) with v neither None, 1 nor -1 fails, for every  *)
(* size and update flag, and leaves x and forward as they were.            *)
C8_BadIncrementRejected ==
    (/\ last.op = "random"
     /\ last.increment.kind = "int"
     /\ last.increment.val \notin {-1, 1})
    => /\ last.err
       /\ _x = last.x_before
       /\ forward = last.forward_before

(* A committing bulk call with increment 2 has failed on a generator in    *)
(* forward mode that had moved off its seed.                               *)
C8_Witness ==
    /\ last.op = "random" /\ last.err
    /\ last.increment = IntArg(2) /\ last.update /\ last.size = IntArg(1)
    /\ ~last.fresh
    /\ forward

(* C9: whenever a call of random() ends in an error, x and forward are as  *)
(* they were before the call.                                              *)
C9_FailedCallKeepsState ==
    (last.op = "random" /\ last.err)
    => (_x = last.x_before /\ forward = last.forward_before)

(* C10: on a generator freshly constructed with a power-of-two m and an    *)
(* odd a, next() followed by prev() leaves x equal to the seed (the x the  *)
(* constructor stored, which next() started from).                         *)
C10_FreshRoundTrip ==
    (/\ ValidParams
     /\ last.op = "prev" /\ last.prevop = "next" /\ last.prevfresh
     /\ ~last.err)
    => _x = last.x_before2

----------------------------------------------------------------------------
(* The values n steps in one direction return: next() for fwd, else        *)
(* prev(); one value for n = 1.                                            *)
Outputs(fwd, xv, n) ==
    LET ss == ScalarStates(IF fwd THEN "next" ELSE "prev", xv, n)
    IN  [i \in 1 .. n |-> Shr(ss[i], _d)]

(* The number of steps of a call of random: one for size None. *)
StepsOf(e) == IF e.size.kind = "None" THEN 1 ELSE e.size.val

(* A call of random that returned, of a size None or N >= 0. *)
Returned(e) ==
    /\ e.op = "random" /\ ~e.err
    /\ e.size.kind \in {"None", "int"}

(* C11: forward changes only through reverse() or a random() call with     *)
(* update=True and an increment that is not None: next(), prev(),          *)
(* __next__(), random() with increment=None and every random() with        *)
(* update=False leave forward as it was.                                   *)
C11_ModeChangesOnlyByFlip ==
    (\/ last.op \in {"next", "prev", "__next__"}
     \/ (last.op = "random" /\ last.increment.kind = "None")
     \/ (last.op = "random" /\ ~last.update))
    => forward = last.forward_before

(* A peek backwards has returned on a generator in forward mode. *)
C11_Witness ==
    /\ Returned(last) /\ ~last.update
    /\ last.increment = IntArg(-1) /\ last.size = IntArg(2)
    /\ last.forward_before /\ forward
    /\ Len(last.ret) = 2

(* C12: after a successful random(update=True, increment=i), i in {1, -1}, *)
(* forward is (i = 1) and the steps of the call were taken in direction i; *)
(* and every __next__() and every random() without an increment steps in   *)
(* the direction of the mode it finds.                                     *)
C12_OverrideSetsMode ==
    /\ []((Returned(last) /\ last.update /\ last.increment.kind = "int")
          => /\ forward = (last.increment.val = 1)
             /\ last.ret = Outputs(last.increment.val = 1, last.x_before,
                                   StepsOf(last))
             /\ _x = ScalarStates(IF last.increment.val = 1 THEN "next"
                                  ELSE "prev",
                                  last.x_before, StepsOf(last))[StepsOf(last)])
    /\ [][(\/ (last'.op = "__next__" /\ ~last'.err)
           \/ (Returned(last') /\ last'.increment.kind = "None"))
          => last'.ret = Outputs(forward, _x, StepsOf(last'))]_vars

(* A committed bulk call backwards has returned on a generator that was in *)
(* forward mode.                                                           *)
C12_Witness ==
    /\ Returned(last) /\ last.update
    /\ last.increment = IntArg(-1) /\ last.size = IntArg(2)
    /\ last.forward_before /\ ~forward
    /\ _x # last.x_before

(* C13: random(size, update=False, increment) returns the values that an   *)
(* immediately following random(size, update=True, increment) returns, for *)
(* size None or N >= 1 and increment None, 1 or -1.                        *)
C13_PeekEqualsCommit ==
    (/\ last.op = "random" /\ last.update /\ last.after_peek
     /\ last.size.kind = "None" \/ (last.size.kind = "int" /\ last.size.val >= 1)
     /\ last.increment.kind = "None" \/ last.increment.val \in {-1, 1})
    => (~last.err /\ last.ret = last.peek_ret)

(* A commit backwards has followed the same peek in forward mode. *)
C13_Witness ==
    /\ Returned(last) /\ last.update /\ last.after_peek
    /\ last.size = NoneArg /\ last.increment = IntArg(-1)
    /\ last.forward_before
    /\ last.ret = last.peek_ret /\ Len(last.ret) = 1
    /\ _x # last.x_before

(* C17: for every count >= 0, either direction and either update flag,     *)
(* random(size=count) returns exactly count values; with update=True x is  *)
(* then the state count steps of the recurrence away from the x before the *)
(* call, and with update=False x is as before.                             *)
C17_BulkCountAndFinalState ==
    (/\ last.op = "random" /\ last.size.kind = "int" /\ last.size.val >= 0
     /\ last.increment.kind = "None" \/ last.increment.val \in {-1, 1})
    => LET n == last.size.val
           fwd == IF last.increment.kind = "None" THEN last.forward_before
                  ELSE last.increment.val = 1
           ss == ScalarStates(IF fwd THEN "next" ELSE "prev",
                              last.x_before, n)
       IN  /\ ~last.err
           /\ Len(last.ret) = n
           /\ _x = IF last.update /\ n > 0 THEN ss[n] ELSE last.x_before

----------------------------------------------------------------------------
(* The greatest common divisor of a >= 0 and b >= 1, by search. *)
Gcd(a, b) ==
    CHOOSE g \in 1 .. b :
        /\ a % g = 0 /\ b % g = 0
        /\ \A h \in g + 1 .. b : ~(a % h = 0 /\ b % h = 0)

(* C14: for a >= 0 and b >= 1, x = xgcd_x(a, b) makes a * x - gcd(a, b) a  *)
(* multiple of b, so a * x is 1 modulo b when gcd(a, b) = 1; and           *)
(* xgcd_x(46, 240) = 47.                                                   *)
C14_BezoutCoefficient ==
    last.op = "xgcd_x" =>
        LET a == last.a_arg
            b == last.m_arg
            x == last.ret[1]
        IN  /\ (a * x - Gcd(a, b)) % b = 0
            /\ Gcd(a, b) = 1 => (a * x) % b = 1 % b
            /\ (a = 46 /\ b = 240) => x = 47

(* xgcd_x(46, 240) has returned. *)
C14_Witness ==
    /\ last.op = "xgcd_x" /\ last.a_arg = 46 /\ last.m_arg = 240
    /\ last.ret = <<47>>

(* C15: is_power_of_two(x) is true exactly when x = 0 or x = 2^k, k >= 0:  *)
(* false for every negative x and every positive x with two bits set.     *)
C15_PowerOfTwoTest ==
    last.op = "is_power_of_two" =>
        /\ last.ret[1] <=> (last.a_arg = 0 \/ IsPow2(last.a_arg))
        /\ last.a_arg < 0 => ~last.ret[1]
        /\ last.a_arg \in {0, 1, 2, 8, 256} => last.ret[1]
        /\ last.a_arg \in {-1, 3, 9, 257} => ~last.ret[1]

(* is_power_of_two(0) has returned true. *)
C15_Witness ==
    last.op = "is_power_of_two" /\ last.a_arg = 0 /\ last.ret = <<TRUE>>

(* C16: with the default parameters and seed 42, five successive next()    *)
(* calls return 293047021, 968358053, 1773127077, 560055359, 773728940.    *)
ReferenceValues ==
    <<293047021, 968358053, 1773127077, 560055359, 773728940>>

C16_ReferenceVectors ==
    wide.seed = 42 =>
        \A i \in DOMAIN wide.outs \cap DOMAIN ReferenceValues :
            wide.outs[i] = ReferenceValues[i]

(* The fifth call from seed 42 has returned. *)
C16_Witness ==
    /\ wide.seed = 42 /\ Len(wide.outs) = 5
    /\ wide.outs[5] = 773728940

(* C18: after any sequence of get_a_inverse_value calls, every entry of    *)
(* a_inverse_stored maps its key (a, b) to xgcd_x(a, b), no entry is ever  *)
(* overwritten or removed, and the call returns xgcd_x(a, b) whether or    *)
(* not the pair was cached.                                                *)
C18_CacheHoldsXgcd ==
    /\ [](\A k \in DOMAIN a_inverse_stored :
            a_inverse_stored[k] = xgcd_x(k[1], k[2]))
    /\ [](last.op = "get_a_inverse_value" =>
            /\ last.ret = <<xgcd_x(last.a_arg, last.m_arg)>>
            /\ <<last.a_arg, last.m_arg>> \in DOMAIN a_inverse_stored)
    /\ [][\A k \in DOMAIN a_inverse_stored :
            /\ k \in DOMAIN a_inverse_stored'
            /\ a_inverse_stored'[k] = a_inverse_stored[k]]_vars

(* A cached pair with a nonzero coefficient has been asked for again,      *)
(* with another pair in the cache.                                         *)
C18_Witness ==
    /\ last.op = "get_a_inverse_value" /\ last.hit
    /\ last.ret[1] # 0
    /\ Cardinality(DOMAIN a_inverse_stored) >= 2

(* C19: reverse() negates forward and leaves x, m, a, c, d and a_inverse   *)
(* unchanged; after two consecutive reverse() calls the state is the one   *)
(* before them.                                                            *)
C19_ReverseFlipsOnly ==
    /\ [][last'.op = "reverse" =>
            /\ forward' = ~forward
            /\ UNCHANGED <<cls, _x, _m, _a, _c, _d, _a_inverse>>]_vars
    /\ []((last.op = "reverse" /\ last.prevop = "reverse") =>
            /\ forward = last.forward_before2
            /\ _x = last.x_before2)

(* Two consecutive reverse() calls have returned in backward mode, off the *)
(* seed.                                                                   *)
C19_Witness ==
    /\ last.op = "reverse" /\ last.prevop = "reverse"
    /\ ~forward /\ ~last.forward_before2
    /\ ~last.prevfresh /\ _x > 0

(* The seed an object was built with. *)
SeedOf(o) == IF Len(o.hist) = 0 THEN o.x ELSE o.hist[1].x_before

SameBuild(o1, o2) ==
    /\ o1.cls = o2.cls /\ o1.cls # "none"
    /\ o1.m = o2.m /\ o1.a = o2.a /\ o1.c = o2.c /\ o1.d = o2.d
    /\ SeedOf(o1) = SeedOf(o2)

CallOf(e) == <<e.op, e.size, e.update, e.increment>>

ResultOf(e) == <<e.err, e.retkind, e.ret>>

SameCalls(h1, h2, n) == \A j \in 1 .. n : CallOf(h1[j]) = CallOf(h2[j])

(* C20: with two generators alive, sharing only a_inverse_stored, nothing  *)
(* done to one changes the other: the object that is not being called      *)
(* changes in no step, in any interleaving; and two generators built with  *)
(* the same parameters and seed and given the same calls return the same   *)
(* outputs.                                                                *)
C20_GeneratorsIsolated ==
    /\ [][other' # other =>
            /\ other' = CurObj
            /\ cls' = "none" \/ CurObj' = other]_vars
    /\ [](SameBuild(CurObj, other) =>
            \A i \in DOMAIN hist \cap DOMAIN other.hist :
                SameCalls(hist, other.hist, i) =>
                    ResultOf(hist[i]) = ResultOf(other.hist[i]))

(* Two generators of the same build, constructed on either side of a       *)
(* third one with another modulus, have each taken the same backward step. *)
C20_Witness ==
    /\ SameBuild(CurObj, other)
    /\ Cardinality(DOMAIN a_inverse_stored) = 2
    /\ Len(hist) = 1 /\ Len(other.hist) = 1
    /\ hist[1].op = "prev" /\ other.hist[1].op = "prev"
    /\ hist[1].ret = other.hist[1].ret
    /\ ~hist[1].err

====
